---- MODULE Spec2Model ----
(***************************************************************************)
(* ElevenLabsService (manim_voiceover/services/elevenlabs.py): voice       *)
(* resolution at construction time and generate_from_text (cache lookup,   *)
(* remote synthesis, audio file write).                                    *)
(*                                                                         *)
(* Three specifications over the same variables:                           *)
(*   SpecInit        the constructor, step by step;                        *)
(*   Spec            generate_from_text, one call at a time;               *)
(*   SpecConcurrent  generate_from_text, callers interleaved.              *)
(***************************************************************************)
EXTENDS Integers, Sequences, FiniteSets, TLC

VARIABLES ctor, svc, call, cache, files, converts

vars == <<ctor, svc, call, cache, files, converts>>

-----------------------------------------------------------------------------
(* Python values *)

\* Python's None; every other value of the model is a different string,
\* sequence or record.
None == "<None>"

\* An attribute that was never assigned.
Unset == "<unset>"

\* `if x:` / `not x` on an Optional[str]: None and "" are falsy.
Truthy(x) == x # None /\ x # ""

SeqsUpTo(S, n) == UNION {[1..k -> S] : k \in 0..n}

LogRecord(level, msg, arg) == [level |-> level, msg |-> msg, arg |-> arg]

-----------------------------------------------------------------------------
(* The remote voice list *)

\* Longest remote voice list.
MaxVoices == 2

VoiceNames == {"Rachel", "rachel"}

RemoteVoiceIds == {"V1", "V2"}

\* A remote voice: the two attributes the constructor reads.
Voice == [name : VoiceNames, voice_id : RemoteVoiceIds]

\* What client.voices.get_all() does when called: returns an ordered list of
\* voices, or raises.
GetAllOutcomes ==
    [exc : {None}, voices : SeqsUpTo(Voice, MaxVoices)]
        \cup [exc : {"ApiError"}, voices : {<<>>}]

-----------------------------------------------------------------------------
(* ElevenLabsService.__init__ : voice resolution *)

\* `except Exception`: the exceptions the two handlers catch.  Both the
\* client's error and the IndexError of voices[0] are Exceptions.
IsExceptionOnlyIndexError(exc) == exc = "IndexError"

IsExceptionOnlyApiError(exc) == exc = "ApiError"

IsException(exc) == exc \in {"ApiError", "IndexError"}

\* The body of the first try block: the first available voice.
TryDefaultVoice(remote) ==
    IF remote.exc # None
      THEN [exc |-> remote.exc, voice_id |-> Unset, log |-> <<>>]
    ELSE IF Len(remote.voices) = 0
      THEN [exc |-> "IndexError", voice_id |-> Unset, log |-> <<>>]
    ELSE [exc |-> None,
          voice_id |-> remote.voices[1].voice_id,
          log |-> <<LogRecord("info", "Using default voice",
                              remote.voices[1].name)>>]

\* str.lower() on the voice names of the model.
Lower(s) == IF s = "Rachel" THEN "rachel" ELSE s

SelectedVoiceIgnoreCase(voices, voice_name) ==
    SelectSeq(voices, LAMBDA v : Lower(v.name) = Lower(voice_name))

\* [v for v in voices if v.name == voice_name]
SelectedVoice(voices, voice_name) ==
    SelectSeq(voices, LAMBDA v : v.name = voice_name)

\* The body of the second try block: the voice of that name, else the first.
\* The warning is logged before voices[0] is evaluated.
TryNamedVoiceNoWarning(remote, voice_name) ==
    IF remote.exc # None
      THEN [exc |-> remote.exc, voice_id |-> Unset, log |-> <<>>]
    ELSE LET selected_voice == SelectedVoice(remote.voices, voice_name)
         IN  IF Len(selected_voice) > 0
               THEN [exc |-> None, voice_id |-> selected_voice[1].voice_id,
                     log |-> <<>>]
             ELSE IF Len(remote.voices) = 0
               THEN [exc |-> "IndexError", voice_id |-> Unset, log |-> <<>>]
             ELSE [exc |-> None, voice_id |-> remote.voices[1].voice_id,
                   log |-> <<>>]

TryNamedVoice(remote, voice_name) ==
    IF remote.exc # None
      THEN [exc |-> remote.exc, voice_id |-> Unset, log |-> <<>>]
    ELSE LET selected_voice == SelectedVoice(remote.voices, voice_name)
             warning == LogRecord("warning", "Voice name not found", voice_name)
         IN  IF Len(selected_voice) > 0
               THEN [exc |-> None, voice_id |-> selected_voice[1].voice_id,
                     log |-> <<>>]
             ELSE IF Len(remote.voices) = 0
               THEN [exc |-> "IndexError", voice_id |-> Unset,
                     log |-> <<warning>>]
             ELSE [exc |-> None, voice_id |-> remote.voices[1].voice_id,
                   log |-> <<warning>>]

\* The outcome of a try block t under its `except Exception as e` handler,
\* which logs the error and assigns fallback; an exception the handler does
\* not catch propagates out of the constructor.
Handled(t, fallback) ==
    IF t.exc = None
      THEN [exc |-> None, voice_id |-> t.voice_id, log |-> t.log]
    ELSE IF IsException(t.exc)
      THEN [exc |-> None, voice_id |-> fallback,
            log |-> Append(t.log,
                           LogRecord("error", "Failed to get voices", t.exc))]
    ELSE [exc |-> t.exc, voice_id |-> t.voice_id, log |-> t.log]

\* "Determine voice to use", with voice_name tested before voice_id.
ResolveVoiceNameFirst(voice_name, voice_id, remote) ==
    IF ~Truthy(voice_name) /\ ~Truthy(voice_id)
      THEN LET r == Handled(TryDefaultVoice(remote), None)
           IN  [r EXCEPT !.log = <<LogRecord("warning",
                                    "None of voice_name or voice_id provided",
                                    None)>> \o @]
                   @@ [get_all |-> 1]
    ELSE IF Truthy(voice_name)
      THEN Handled(TryNamedVoice(remote, voice_name),
                   IF Truthy(voice_id) THEN voice_id ELSE None)
               @@ [get_all |-> 1]
    ELSE [exc |-> None, voice_id |-> voice_id, log |-> <<>>, get_all |-> 0]

\* "Determine voice to use": the resolved voice_id, the log records emitted,
\* the number of client.voices.get_all() calls made, and the exception that
\* leaves the constructor, if any.
ResolveVoice(voice_name, voice_id, remote) ==
    IF ~Truthy(voice_name) /\ ~Truthy(voice_id)
      THEN LET r == Handled(TryDefaultVoice(remote), None)
           IN  [r EXCEPT !.log = <<LogRecord("warning",
                                    "None of voice_name or voice_id provided",
                                    None)>> \o @]
                   @@ [get_all |-> 1]
    ELSE IF Truthy(voice_id)
      THEN [exc |-> None, voice_id |-> voice_id, log |-> <<>>, get_all |-> 0]
    ELSE Handled(TryNamedVoice(remote, voice_name),
                 IF Truthy(voice_id) THEN voice_id ELSE None)
             @@ [get_all |-> 1]

\* The constructor's parameters, as the model draws them.
VoiceNameArgs == {None, ""} \cup VoiceNames

VoiceIdArgs == {None, "", "V9"}

Models == {"eleven_multilingual_v2", "eleven_turbo_v2"}

VoiceSettings == {None, "stability=0.3"}

OutputFormats == {"mp3_44100_128", "mp3_22050_32"}

\* The constructor's frame before it is entered.
NoCtor ==
    [pc |-> "start", voice_name |-> None, voice_id |-> None,
     remote |-> [exc |-> None, voices |-> <<>>],
     self |-> [model |-> Unset, voice_settings |-> Unset,
               output_format |-> Unset, voice_id |-> Unset],
     get_all |-> 0, log |-> <<>>, exc |-> None, base_init |-> FALSE]

\* Entry of __init__: the client is created and model, voice_settings and
\* output_format are stored.  remote is what the voice-list endpoint will
\* answer if it is asked.
New(voice_name, voice_id, model, voice_settings, output_format, remote) ==
    /\ ctor.pc = "start"
    /\ ctor' = [NoCtor EXCEPT
                  !.pc = "resolve",
                  !.voice_name = voice_name,
                  !.voice_id = voice_id,
                  !.remote = remote,
                  !.self = [model |-> model,
                            voice_settings |-> voice_settings,
                            output_format |-> output_format,
                            voice_id |-> Unset]]
    /\ UNCHANGED <<svc, call, cache, files, converts>>

\* "Determine voice to use": the if / elif / else with its two try blocks.
Resolve ==
    /\ ctor.pc = "resolve"
    /\ LET r == ResolveVoice(ctor.voice_name, ctor.voice_id, ctor.remote)
       IN  ctor' = [ctor EXCEPT
                      !.pc = IF r.exc = None THEN "base" ELSE "aborted",
                      !.self.voice_id = r.voice_id,
                      !.get_all = r.get_all,
                      !.log = r.log,
                      !.exc = r.exc]
    /\ UNCHANGED <<svc, call, cache, files, converts>>

\* SpeechService.__init__(self, transcription_model=..., **kwargs)
BaseInit ==
    /\ ctor.pc = "base"
    /\ ctor' = [ctor EXCEPT !.pc = "constructed", !.base_init = TRUE]
    /\ UNCHANGED <<svc, call, cache, files, converts>>

-----------------------------------------------------------------------------
(* Collaborators of generate_from_text *)

Bookmarks == {"<bookmark mark='a'/>"}

\* Texts are sequences of tokens: words, single spaces and bookmark tags.
Texts ==
    { <<"Hello", " ", "<bookmark mark='a'/>", " ", "world">>,
      <<"Hello", " ", " ", "world">>,
      <<"Hello", " ", "world">> }

\* manim_voiceover.helper.remove_bookmarks: the text without its bookmark
\* tags; everything else, the spaces around a tag included, stays.
remove_bookmarks(text) == SelectSeq(text, LAMBDA tok : tok \notin Bookmarks)

RECURSIVE Str(_)
\* The string a token sequence spells.
Str(toks) == IF toks = <<>> THEN "" ELSE Head(toks) \o Str(Tail(toks))

CacheDirs == {"d1", "d2"}

\* Explicit `path` arguments.
PathArgs == {None, "out.mp3"}

\* SpeechService.get_cached_result: the first entry of the cache directory's
\* record whose input_data equals the fingerprint.
get_cached_result(input_data, cache_dir) ==
    LET entries == cache[cache_dir]
        found == {i \in 1..Len(entries) : entries[i].input_data = input_data}
    IN  IF found = {}
          THEN [hit |-> FALSE, entry |-> <<>>]
        ELSE [hit |-> TRUE,
              entry |-> <<entries[CHOOSE i \in found :
                                     \A j \in found : i <= j]>>]

\* SpeechService.get_audio_basename: a name determined by the fingerprint.
get_audio_basename(input_data) ==
    Str(input_data.input_text) \o "-" \o input_data.config.model
        \o "-" \o input_data.config.voice_id

-----------------------------------------------------------------------------
(* The remote synthesis endpoint and the file system *)

\* Most chunks the endpoint yields for one request.
MaxChunks == 2

\* The binary chunks the endpoint yields.
Chunks == {<<1>>, <<2, 3>>}

Streams == SeqsUpTo(Chunks, MaxChunks)

RECURSIVE Join(_)
\* b"".join(chunk for chunk in audio_generator)
Join(generator) ==
    IF generator = <<>> THEN <<>>
    ELSE Head(generator) \o Join(Tail(generator))

\* open(name, "r+b"/"ab"-like): the file keeps what it held.
OpenedKeeping(fs, name) == IF name \in DOMAIN fs THEN fs ELSE (name :> <<>>) @@ fs

\* open(name, "wb"): the file exists and is empty.
Opened(fs, name) == (name :> <<>>) @@ fs

\* f.write(data) on a handle at offset 0: data replaces the first Len(data)
\* bytes of the file, which keeps what it held beyond them.
Written(fs, name, data) ==
    LET old == fs[name]
    IN  (name :> data \o SubSeq(old, Len(data) + 1, Len(old))) @@ fs

-----------------------------------------------------------------------------
(* ElevenLabsService.generate_from_text *)

Services == {"s1", "s2"}

\* The callers; each makes one call of generate_from_text.
Callers == {"c1", "c2"}

NoData ==
    [input_text |-> <<>>, service |-> "",
     config |-> [model |-> "", voice_id |-> ""]]

NoResult == [input_text |-> <<>>, input_data |-> NoData, original_audio |-> ""]

\* A caller that is not inside generate_from_text.
NoCall ==
    [pc |-> "idle", self |-> "", text |-> <<>>, cache_dir |-> "",
     path |-> None, input_text |-> <<>>, input_data |-> NoData,
     hit |-> FALSE, audio_path |-> "", generator |-> <<>>,
     audio_bytes |-> <<>>, cause |-> None, exc |-> None, log |-> <<>>,
     result |-> NoResult]

\* input_data with output_format among its config.
InputDataWithFormat(self, input_text) ==
    [input_text |-> input_text,
     service |-> "elevenlabs",
     config |-> [model |-> svc[self].model, voice_id |-> svc[self].voice_id,
                 output_format |-> svc[self].output_format]]

\* input_data: the cache fingerprint.
InputData(self, input_text) ==
    [input_text |-> input_text,
     service |-> "elevenlabs",
     config |-> [model |-> svc[self].model, voice_id |-> svc[self].voice_id]]

\* The request client.text_to_speech.convert receives, and the cache
\* directory of the call that sent it.
Request(f) ==
    [cache_dir |-> f.cache_dir, text |-> f.input_text,
     voice_id |-> svc[f.self].voice_id, model_id |-> svc[f.self].model,
     output_format |-> svc[f.self].output_format,
     voice_settings |-> svc[f.self].voice_settings]

\* The file the call writes.
Destination(f) == <<f.cache_dir, f.audio_path>>

\* The handler that lets the cause through (a bare `raise`).
ExceptReraise(f, cause) ==
    [f EXCEPT !.pc = "raised", !.cause = cause, !.exc = cause,
              !.log = Append(@, LogRecord("error",
                                          "Error using ElevenLabs API",
                                          cause))]

\* `except Exception as e`: log the cause, raise the generic exception.
Except(f, cause) ==
    [f EXCEPT !.pc = "raised", !.cause = cause,
              !.exc = "Failed to generate speech with ElevenLabs.",
              !.log = Append(@, LogRecord("error",
                                          "Error using ElevenLabs API",
                                          cause))]

\* input_text left as the caller gave it.
InputTextRaw(text) == text

\* input_text = remove_bookmarks(text)
InputText(text) == remove_bookmarks(text)

\* Entry: cache_dir defaults to self.cache_dir; input_text and input_data
\* are built.
Call(c, self, text, cache_dir, path) ==
    /\ call[c].pc = "idle"
    /\ LET input_text == InputText(text)
       IN  call' = [call EXCEPT ![c] =
                      [NoCall EXCEPT
                         !.pc = "lookup",
                         !.self = self,
                         !.text = text,
                         !.cache_dir = IF cache_dir = None
                                         THEN svc[self].cache_dir
                                       ELSE cache_dir,
                         !.path = path,
                         !.input_text = input_text,
                         !.input_data = InputData(self, input_text)]]
    /\ UNCHANGED <<ctor, svc, cache, files, converts>>

\* The lookup with a lock: it waits while another caller is synthesising
\* the same fingerprint in the same cache directory.
LookupGuardLocked(c) ==
    \A d \in Callers \ {c} :
        ~ (/\ call[d].pc \in {"convert", "join", "open", "write", "returned"}
           /\ call[d].cache_dir = call[c].cache_dir
           /\ call[d].input_data = call[c].input_data)

\* What the lookup waits for: nothing.
LookupGuard(c) == TRUE

\* get_cached_result; on a hit the cached result is returned, on a miss
\* audio_path is chosen.
Lookup(c) ==
    /\ call[c].pc = "lookup"
    /\ LookupGuard(c)
    /\ LET f == call[c]
           cached_result == get_cached_result(f.input_data, f.cache_dir)
       IN  call' = [call EXCEPT ![c] =
                      IF cached_result.hit
                        THEN [f EXCEPT !.pc = "returned", !.hit = TRUE,
                                       !.result = cached_result.entry[1]]
                      ELSE [f EXCEPT !.pc = "convert",
                                     !.audio_path =
                                        IF f.path = None
                                          THEN get_audio_basename(f.input_data)
                                                 \o ".mp3"
                                        ELSE f.path]]
    /\ UNCHANGED <<ctor, svc, cache, files, converts>>

\* client.text_to_speech.convert(...): the request is made; the call
\* returns a generator or raises.
Convert(c) ==
    /\ call[c].pc = "convert"
    /\ LET r == Request(call[c])
       IN  converts' = IF r \in DOMAIN converts
                         THEN [converts EXCEPT ![r] = @ + 1]
                       ELSE (r :> 1) @@ converts
    /\ \/ call' = [call EXCEPT ![c].pc = "join"]
       \/ call' = [call EXCEPT ![c] = Except(call[c], "ApiError")]
    /\ UNCHANGED <<ctor, svc, cache, files>>

\* The generator is consumed: the endpoint yields its chunks, which are
\* joined into audio_bytes, or the generator raises on the way.
Consume(c) ==
    /\ call[c].pc = "join"
    /\ \/ \E generator \in Streams :
             call' = [call EXCEPT ![c].pc = "open",
                                  ![c].generator = generator,
                                  ![c].audio_bytes = Join(generator)]
       \/ call' = [call EXCEPT ![c] = Except(call[c], "StreamError")]
    /\ UNCHANGED <<ctor, svc, cache, files, converts>>

\* open(str(Path(cache_dir) / audio_path), "wb")
Open(c) ==
    /\ call[c].pc = "open"
    /\ \/ /\ files' = Opened(files, Destination(call[c]))
          /\ call' = [call EXCEPT ![c].pc = "write"]
       \/ /\ call' = [call EXCEPT ![c] = Except(call[c], "OSError in open")]
          /\ UNCHANGED files
    /\ UNCHANGED <<ctor, svc, cache, converts>>

\* f.write(audio_bytes), the file is closed and json_dict is returned; or
\* the write raises and leaves the file as open() made it.
Write(c) ==
    /\ call[c].pc = "write"
    /\ \/ /\ files' = Written(files, Destination(call[c]), call[c].audio_bytes)
          /\ call' = [call EXCEPT
                        ![c].pc = "returned",
                        ![c].result =
                           [input_text |-> call[c].text,
                            input_data |-> call[c].input_data,
                            original_audio |-> call[c].audio_path]]
       \/ /\ call' = [call EXCEPT ![c] = Except(call[c], "OSError in write")]
          /\ UNCHANGED files
    /\ UNCHANGED <<ctor, svc, cache, converts>>

\* The caller takes the outcome.  The cache collaborator records a freshly
\* synthesised result in the cache directory's record.
Complete(c) ==
    /\ call[c].pc \in {"returned", "raised"}
    /\ cache' = IF call[c].pc = "returned" /\ ~call[c].hit
                  THEN [cache EXCEPT ![call[c].cache_dir] =
                          Append(@, call[c].result)]
                ELSE cache
    /\ call' = [call EXCEPT ![c] = [NoCall EXCEPT !.pc = "done"]]
    /\ UNCHANGED <<ctor, svc, files, converts>>

-----------------------------------------------------------------------------
(* Specifications *)

\* The services' configurations after construction: s1 with the defaults
\* and a voice given by id, s2 differing from it in voice_settings and
\* output_format only.
DefaultService ==
    [model |-> "eleven_multilingual_v2", voice_id |-> "V1",
     voice_settings |-> None, output_format |-> "mp3_44100_128",
     cache_dir |-> "d1"]

ServiceConfigs ==
    [s1 |-> DefaultService,
     s2 |-> [DefaultService EXCEPT !.voice_settings = "stability=0.3",
                                   !.output_format = "mp3_22050_32"]]

Init ==
    /\ ctor = NoCtor
    /\ svc = ServiceConfigs
    /\ call = [c \in Callers |-> NoCall]
    /\ cache = [d \in CacheDirs |-> <<>>]
    /\ files = <<>>
    /\ converts = <<>>

NextInit ==
    \/ \E voice_name \in VoiceNameArgs, voice_id \in VoiceIdArgs,
          model \in Models, voice_settings \in VoiceSettings,
          output_format \in OutputFormats, remote \in GetAllOutcomes :
          New(voice_name, voice_id, model, voice_settings, output_format,
              remote)
    \/ Resolve
    \/ BaseInit

\* One call at a time: a call is entered only when no other is in progress.
CallAlone(c, self, text, cache_dir, path) ==
    /\ \A d \in Callers \ {c} : call[d].pc \in {"idle", "done"}
    /\ Call(c, self, text, cache_dir, path)

Next ==
    \E c \in Callers :
        \/ \E self \in Services, text \in Texts,
              cache_dir \in {None, "d2"}, path \in PathArgs :
              CallAlone(c, self, text, cache_dir, path)
        \/ Lookup(c)
        \/ Convert(c)
        \/ Consume(c)
        \/ Open(c)
        \/ Write(c)
        \/ Complete(c)

NextConcurrent ==
    \E c \in Callers :
        \/ \E self \in Services, text \in Texts,
              cache_dir \in {None, "d2"}, path \in PathArgs :
              Call(c, self, text, cache_dir, path)
        \/ Lookup(c)
        \/ Convert(c)
        \/ Consume(c)
        \/ Open(c)
        \/ Write(c)
        \/ Complete(c)

SpecInit == Init /\ [][NextInit]_vars

Spec == Init /\ [][Next]_vars

SpecConcurrent == Init /\ [][NextConcurrent]_vars

-----------------------------------------------------------------------------
(* Properties of the constructor (SpecInit) *)

\* The voice has been determined: the constructor is about to call the base
\* class, has returned, or was left by an exception.
Resolved == ctor.pc \in {"base", "constructed", "aborted"}

\* The constructor got past voice resolution without an exception.
Proceeds ==
    /\ ctor.pc \in {"base", "constructed"}
    /\ ctor.exc = None
    /\ ctor.pc = "constructed" => ctor.base_init

\* The remote list was asked for and came back.
Fetched == ctor.get_all = 1 /\ ctor.remote.exc = None

\* The positions of the remote voices named exactly voice_name.
Matches == {i \in 1..Len(ctor.remote.voices) :
              ctor.remote.voices[i].name = ctor.voice_name}

Logged(level, msg, arg) ==
    \E i \in 1..Len(ctor.log) : ctor.log[i] = LogRecord(level, msg, arg)

\* C1: with a voice_id given (with or without a voice_name), the constructor
\* never calls client.voices.get_all and the resolved voice_id is the given
\* id verbatim.
C1_GivenVoiceIdIsUsedWithoutFetch ==
    (Resolved /\ Truthy(ctor.voice_id)) =>
        /\ Proceeds
        /\ ctor.get_all = 0
        /\ ctor.self.voice_id = ctor.voice_id

\* C1's case: id and name both given, and the remote list holds a voice of
\* that name under another id.
C1_Witness ==
    /\ ctor.pc = "constructed"
    /\ ctor.voice_id = "V9"
    /\ ctor.voice_name = "Rachel"
    /\ Matches # {}
    /\ ctor.self.voice_id = "V9"

\* C2: with only voice_name given and a fetched list holding a voice of
\* exactly that name, the resolved voice_id is that of the first such voice
\* in list order.
C2_NamedVoiceIsFirstExactMatch ==
    (Resolved /\ ~Truthy(ctor.voice_id) /\ Truthy(ctor.voice_name)
       /\ ctor.remote.exc = None /\ Matches # {}) =>
        /\ Proceeds
        /\ Fetched
        /\ \E i \in Matches :
              /\ \A j \in Matches : i <= j
              /\ ctor.self.voice_id = ctor.remote.voices[i].voice_id

\* C2's case: the named voice is listed second, after a voice whose name
\* differs only in case and whose id is another.
C2_Witness ==
    /\ ctor.pc = "constructed"
    /\ ctor.voice_id = None
    /\ ctor.voice_name = "Rachel"
    /\ Len(ctor.remote.voices) = 2
    /\ ctor.remote.voices[1] = [name |-> "rachel", voice_id |-> "V1"]
    /\ ctor.remote.voices[2] = [name |-> "Rachel", voice_id |-> "V2"]
    /\ ctor.self.voice_id = "V2"

\* C3: with no voice_id given and a non-empty fetched list, the resolved
\* voice_id is the first listed voice's, both without a voice_name and with
\* one that no listed voice has; in the latter case a warning is logged.
C3_FallbackIsFirstListedVoice ==
    (Resolved /\ ~Truthy(ctor.voice_id) /\ ctor.remote.exc = None
       /\ Len(ctor.remote.voices) > 0
       /\ (~Truthy(ctor.voice_name) \/ Matches = {})) =>
        /\ Proceeds
        /\ Fetched
        /\ ctor.self.voice_id = ctor.remote.voices[1].voice_id
        /\ Truthy(ctor.voice_name) =>
              Logged("warning", "Voice name not found", ctor.voice_name)

\* C3's case: a name no listed voice has, and two listed voices with
\* different ids.
C3_Witness ==
    /\ ctor.pc = "constructed"
    /\ ctor.voice_id = None
    /\ ctor.voice_name = "Rachel"
    /\ Len(ctor.remote.voices) = 2
    /\ Matches = {}
    /\ ctor.remote.voices[1].voice_id = "V2"
    /\ ctor.remote.voices[2].voice_id = "V1"
    /\ ctor.self.voice_id = "V2"
    /\ Logged("warning", "Voice name not found", "Rachel")

\* C8: with no voice_id given, an error raised by the voice-list fetch is
\* caught and logged, the constructor goes on to the base-class
\* initialisation, and the resolved voice_id is None.
C8_FetchErrorDegradesToNone ==
    (Resolved /\ ~Truthy(ctor.voice_id) /\ ctor.remote.exc # None) =>
        /\ Proceeds
        /\ ctor.get_all = 1
        /\ ctor.self.voice_id = None
        /\ Logged("error", "Failed to get voices", ctor.remote.exc)

\* C8's case: a name given, the fetch raised, the base class initialised.
C8_Witness ==
    /\ ctor.pc = "constructed"
    /\ ctor.base_init
    /\ ctor.voice_name = "Rachel"
    /\ ~Truthy(ctor.voice_id)
    /\ ctor.remote.exc = "ApiError"
    /\ ctor.self.voice_id = None

\* The list was fetched and is empty, and the constructor needed its first
\* entry.
EmptyListFallback ==
    /\ Resolved
    /\ ~Truthy(ctor.voice_id)
    /\ ctor.remote.exc = None
    /\ Len(ctor.remote.voices) = 0

\* C9 as stated: with an empty fetched list the use-first-entry paths leave
\* the constructor with an out-of-bounds error.
C9_EmptyListAbortsConstruction ==
    EmptyListFallback => (ctor.pc = "aborted" /\ ctor.exc = "IndexError")

\* C9 amended: with an empty fetched list the out-of-bounds error of the
\* use-first-entry paths is caught by the handler of the fetch, logged, and
\* the constructor proceeds with voice_id None.
C9_EmptyListDegradesToNone ==
    EmptyListFallback =>
        /\ Proceeds
        /\ ctor.get_all = 1
        /\ ctor.self.voice_id = None
        /\ Logged("error", "Failed to get voices", "IndexError")

\* C9's case: a name given, looked for in an empty list, and the base class
\* initialised.
C9_Witness ==
    /\ EmptyListFallback
    /\ ctor.pc = "constructed"
    /\ ctor.base_init
    /\ ctor.voice_name = "Rachel"
    /\ Logged("warning", "Voice name not found", "Rachel")

-----------------------------------------------------------------------------
(* Properties of generate_from_text, one call at a time (Spec) *)

\* The call has looked the cache up and has not yet been taken by its caller.
PastLookup(c) ==
    call[c].pc \in {"convert", "join", "open", "write", "returned", "raised"}

\* The call missed the cache and went on to synthesise.
Synthesising(c) ==
    \/ call[c].pc \in {"convert", "join", "open", "write", "raised"}
    \/ call[c].pc = "returned" /\ ~call[c].hit

\* The entries of the call's cache directory that were recorded for the same
\* text after bookmark stripping, the same model and the same voice_id.
SameInputEntries(c) ==
    {i \in 1..Len(cache[call[c].cache_dir]) :
        LET e == cache[call[c].cache_dir][i]
        IN  /\ SelectSeq(e.input_text, LAMBDA tok : tok \notin Bookmarks)
                 = SelectSeq(call[c].text, LAMBDA tok : tok \notin Bookmarks)
            /\ e.input_data.config.model = svc[call[c].self].model
            /\ e.input_data.config.voice_id = svc[call[c].self].voice_id}

\* The number of times request r was made.
ConvertsFor(r) == IF r \in DOMAIN converts THEN converts[r] ELSE 0

C5_FingerprintIgnoresSettingsAndFormat ==
    \A c \in Callers :
        PastLookup(c) =>
            /\ call[c].input_data =
                  [input_text |-> call[c].input_text,
                   service |-> "elevenlabs",
                   config |-> [model |-> svc[call[c].self].model,
                               voice_id |-> svc[call[c].self].voice_id]]
            /\ SameInputEntries(c) # {} =>
                  /\ call[c].pc = "returned"
                  /\ call[c].hit

\* C5's case: a service hits an entry although no convert request with its
\* own voice_settings and output_format was ever made: the entry was
\* recorded by the service with the other settings and format.
C5_Witness ==
    \E c \in Callers :
        /\ call[c].pc = "returned"
        /\ call[c].hit
        /\ ConvertsFor(Request(call[c])) = 0
        /\ \E r \in DOMAIN converts :
              /\ r.cache_dir = call[c].cache_dir
              /\ r.text = call[c].input_text
              /\ r.model_id = svc[call[c].self].model
              /\ r.voice_id = svc[call[c].self].voice_id
              /\ r.output_format # svc[call[c].self].output_format
              /\ r.voice_settings # svc[call[c].self].voice_settings

RECURSIVE InYieldOrder(_)
\* The bytes of the chunks, first chunk first.
InYieldOrder(chunks) ==
    IF Len(chunks) = 0 THEN <<>>
    ELSE InYieldOrder(SubSeq(chunks, 1, Len(chunks) - 1)) \o chunks[Len(chunks)]

\* C6: when a call misses the cache and returns, the file original_audio
\* under the cache directory exists and holds exactly the endpoint's chunks
\* in yield order, and original_audio is the given path, else the
\* fingerprint's basename with ".mp3".
C6_FileHoldsTheChunksInOrder ==
    \A c \in Callers :
        (call[c].pc = "returned" /\ ~call[c].hit) =>
            LET name == <<call[c].cache_dir, call[c].result.original_audio>>
            IN  /\ name \in DOMAIN files
                /\ files[name] = InYieldOrder(call[c].generator)
                /\ call[c].result.original_audio =
                      IF call[c].path # None THEN call[c].path
                      ELSE get_audio_basename(call[c].input_data) \o ".mp3"

\* C6's case: a second synthesis to the explicit path of an earlier one, two
\* chunks of different lengths yielded.
C6_Witness ==
    \E c \in Callers :
        /\ call[c].pc = "returned"
        /\ ~call[c].hit
        /\ call[c].path = "out.mp3"
        /\ call[c].generator = << <<2, 3>>, <<1>> >>
        /\ files[<<call[c].cache_dir, "out.mp3">>] = <<2, 3, 1>>
        /\ \E i \in 1..Len(cache[call[c].cache_dir]) :
              cache[call[c].cache_dir][i].original_audio = "out.mp3"

\* C7: after a cache miss, a failure of the convert call, of the chunk
\* stream or of the file write is logged and reaches the caller as one and
\* the same exception, with no result.
C7_FailuresSurfaceAsOneException ==
    \A c \in Callers :
        /\ call[c].cause # None => call[c].pc = "raised"
        /\ call[c].pc = "raised" =>
              /\ call[c].cause \in {"ApiError", "StreamError",
                                    "OSError in open", "OSError in write"}
              /\ call[c].exc = "Failed to generate speech with ElevenLabs."
              /\ call[c].result = NoResult
              /\ ~call[c].hit
              /\ \E i \in 1..Len(call[c].log) :
                    call[c].log[i] = LogRecord("error",
                                               "Error using ElevenLabs API",
                                               call[c].cause)

\* C7's case: the write failed after the file was opened.
C7_Witness ==
    \E c \in Callers :
        /\ call[c].pc = "raised"
        /\ call[c].cause = "OSError in write"
        /\ Destination(call[c]) \in DOMAIN files
        /\ call[c].audio_bytes # <<>>

-----------------------------------------------------------------------------
(* Properties of generate_from_text, callers interleaved (SpecConcurrent) *)

\* C10: nothing makes a caller wait between lookup and write: while another
\* caller is synthesising the same fingerprint in the same cache directory,
\* a caller's lookup can run and miss.
C10_LookupNeverWaitsForAWriter ==
    \A c \in Callers : \A d \in Callers \ {c} :
        (/\ call[c].pc = "lookup"
         /\ call[d].pc \in {"convert", "join", "open", "write"}
         /\ call[d].cache_dir = call[c].cache_dir
         /\ call[d].input_data = call[c].input_data) =>
            ENABLED (Lookup(c) /\ call'[c].pc = "convert")

\* C10's case: two callers of one service both missed, both made the
\* convert request and both wrote the same file.
C10_Witness ==
    /\ \A c \in Callers :
          /\ call[c].pc = "returned"
          /\ ~call[c].hit
          /\ call[c].path = None
    /\ call["c1"].self = call["c2"].self
    /\ call["c1"].input_data = call["c2"].input_data
    /\ Destination(call["c1"]) = Destination(call["c2"])
    /\ converts[Request(call["c1"])] = 2
    /\ call["c1"].audio_bytes # call["c2"].audio_bytes

====
